---- MODULE Spec2Model ----
(***************************************************************************)
(* Model of the Smart Dust simulation (src/smart_dust_system.py):          *)
(* SmartDustMote, DataProcessor, AlertSystem and the loop of               *)
(* SmartDustSimulation.start_simulation.                                   *)
(*                                                                         *)
(* Numbers.  Every float the program stores is rounded to two decimals,    *)
(* so a value v is held as the integer 100*v (hundredths): 25.0 is 2500.   *)
(* base_pollution is held in tenths (0.8 is 8) and a Gaussian draw in      *)
(* tenths of a standard deviation.                                         *)
(*                                                                         *)
(* Randomness.  Python's random module is a deterministic generator whose  *)
(* only free input is its seed; it is modelled the same way: rng is the    *)
(* generator's state, Init picks the seed, and every draw advances it.     *)
(***************************************************************************)
EXTENDS Integers, Sequences, FiniteSets, TLC

VARIABLES
    rng,              \* state of the process-wide random generator
    clock,            \* datetime.now(), as the number of readings stamped so far
    motes,            \* SmartDustSimulation.motes: id -> mote object
    all_readings,     \* DataProcessor.all_readings
    alerts,           \* AlertSystem.alerts
    alert_callbacks,  \* AlertSystem.alert_callbacks
    is_running,       \* SmartDustSimulation.is_running
    pc,               \* where control is: the caller ("idle", "stopped") or a
                      \* step of the loop body ("sense", "add", "analyze", "check")
    cur,              \* index of the mote the loop is at
    reading,          \* local `reading` of the loop
    analysis,         \* local `analysis` of the loop
    op,               \* name of the last call made
    arg,              \* its argument, for a query
    ret,              \* what it returned
    invoked,          \* callbacks the last check_and_alert invoked, in order,
                      \* each with the alert it was handed
    raised,           \* whether the last check_and_alert propagated an exception
    sensed,           \* history: id -> timestamps of the readings the mote produced
    ingested,         \* history: timestamps of the readings passed to add_reading
    generated         \* history: timestamps of the alerts check_and_alert built

vars == << rng, clock, motes, all_readings, alerts, alert_callbacks, is_running,
           pc, cur, reading, analysis, op, arg, ret, invoked, raised,
           sensed, ingested, generated >>

----------------------------------------------------------------------------
(* Bounds of the model *)

NumMotes == 2
MaxReadings == 340
MaxLongReadings == 1510
MaxCallbacks == 2
MaxCount == 2

\* Seeds of the generator: 23 gives two heavily polluted motes (0.8, 0.8),
\* 86 two clean ones (0.0, 0.0), 105 one of each (0.8, 0.0).
Seeds == {23, 86, 105}
\* Callbacks a caller may register besides the simulation's own _on_alert.
\* Any callback may raise when it is called.
Observers == {"observer_a", "observer_b"}

(* Program constants, in hundredths where they are measurements *)

PM25_SAFE_THRESHOLD == 2500
PM10_SAFE_THRESHOLD == 5000
HistoryMaxLen == 100
MaxAllReadings == 1000
MaxAlerts == 100
StatsWindow == 100
Pm25Critical == 5000
Pm25High == 3500
Pm10Critical == 10000
Pm10High == 7000

MoteIds == 1..NumMotes

----------------------------------------------------------------------------
(* Python list and deque operations *)

Min(a, b) == IF a < b THEN a ELSE b
Max(a, b) == IF a > b THEN a ELSE b

\* xs[-n:] for a literal n > 0: the last n elements, all when fewer exist.
LastN(xs, n) == IF Len(xs) <= n THEN xs ELSE SubSeq(xs, Len(xs) - n + 1, Len(xs))

\* xs[-n:] for a variable n >= 0.  -0 is 0, so xs[-0:] is xs[0:], the whole list.
SliceFromMinus(xs, n) == IF n = 0 THEN xs ELSE LastN(xs, n)

\* deque(maxlen=n).append(x): the oldest element is dropped when full.
DequeAppend(dq, x, n) ==
    IF Len(dq) >= n THEN Append(SubSeq(dq, 2, Len(dq)), x) ELSE Append(dq, x)

\* sum(r.f for r in xs), over positions lo..hi (halved, to keep the recursion
\* shallow)
RECURSIVE SumRange(_, _, _, _)
SumRange(xs, f, lo, hi) ==
    IF lo > hi THEN 0
    ELSE IF lo = hi THEN xs[lo][f]
    ELSE LET mid == (lo + hi) \div 2
         IN  SumRange(xs, f, lo, mid) + SumRange(xs, f, mid + 1, hi)

SumOf(xs, f) == SumRange(xs, f, 1, Len(xs))

\* max(r.f for r in xs) and min(r.f for r in xs), xs not empty
FieldValues(xs, f) == { xs[i][f] : i \in 1..Len(xs) }
MaxOf(xs, f) == CHOOSE v \in FieldValues(xs, f) : \A w \in FieldValues(xs, f) : v >= w
MinOf(xs, f) == CHOOSE v \in FieldValues(xs, f) : \A w \in FieldValues(xs, f) : v <= w

\* round(s / n, 2) on hundredths: the nearest integer to s / n, ties to even
\* (s >= 0, n > 0).
RoundDiv(s, n) ==
    LET q == s \div n
        r == s % n
    IN  IF 2 * r < n THEN q
        ELSE IF 2 * r > n THEN q + 1
        ELSE IF q % 2 = 0 THEN q ELSE q + 1

----------------------------------------------------------------------------
(* The random generator: one step of its state, and the Gaussian draw      *)
(* (in tenths of a standard deviation) read off a state.                   *)

NextRng(r) == (r * 3) % 257

RECURSIVE RngSteps(_, _)
RngSteps(r, n) == IF n = 0 THEN r ELSE RngSteps(NextRng(r), n - 1)

GaussTable == << -30, -20, -10, -5, 0, 5, 10, 20, 30 >>
Gauss(r) == GaussTable[(r % 9) + 1]

\* random.uniform(0.0, 0.8), in tenths
UniformBasePollution(r) == r % 9

----------------------------------------------------------------------------
(* DustReading.  temperature, humidity and location are left out of the    *)
(* record: sense() draws them (the generator advances) and no operation    *)
(* modelled here reads them.                                               *)

NoReading == [mote_id |-> 0, timestamp |-> 0, pm25 |-> 0, pm10 |-> 0]
NoAnalysis == [status |-> "NONE", severity |-> "NONE", pm25_level |-> 0,
               pm10_level |-> 0, pm25_threshold |-> 0, pm10_threshold |-> 0]

----------------------------------------------------------------------------
(* SmartDustMote *)

NewMote(id, bp) ==
    [mote_id |-> id, base_pollution |-> bp, is_active |-> TRUE,
     reading_history |-> << >>]

\* The DustReading sense() builds for mote m from generator state r at time t.
SenseReading(m, r, t) ==
    LET r1 == NextRng(r)
        r2 == NextRng(r1)
        r3 == NextRng(r2)
        pm25_base == 1000 + m.base_pollution * 400
        pm10_base == 2000 + m.base_pollution * 600
        time_factor == 1000 + 30 * Gauss(r1)
        pm25 == Max(0, (pm25_base * time_factor) \div 1000 + 50 * Gauss(r2))
        pm10 == Max(0, (pm10_base * time_factor) \div 1000 + 80 * Gauss(r3))
    IN  [mote_id |-> m.mote_id, timestamp |-> t, pm25 |-> pm25, pm10 |-> pm10]

\* The generator after the five gauss() calls of one sense().
RngAfterSense(r) == NextRng(NextRng(NextRng(NextRng(NextRng(r)))))

\* Mutant: a full history refuses the new reading instead of dropping the oldest.
HistoryAppend_DropNewest(h, r) == IF Len(h) >= HistoryMaxLen THEN h ELSE Append(h, r)

HistoryAppend(h, r) == DequeAppend(h, r, HistoryMaxLen)

----------------------------------------------------------------------------
(* DataProcessor *)

\* Mutant: the truncation keeps the oldest 1000 (rs[:1000]) instead of the newest.
AddReadingResult_KeepOldest(rs, r) ==
    LET appended == Append(rs, r)
    IN  IF Len(appended) > MaxAllReadings
        THEN SubSeq(appended, 1, MaxAllReadings)
        ELSE appended

AddReadingResult(rs, r) ==
    LET appended == Append(rs, r)
    IN  IF Len(appended) > MaxAllReadings
        THEN LastN(appended, MaxAllReadings)
        ELSE appended

Pm25Severity(pm25) ==
    IF pm25 > Pm25Critical THEN "CRITICAL"
    ELSE IF pm25 > Pm25High THEN "HIGH"
    ELSE "MODERATE"

Pm10Severity(pm10) ==
    IF pm10 > Pm10Critical THEN "CRITICAL"
    ELSE IF pm10 > Pm10High THEN "HIGH"
    ELSE "MODERATE"

\* Mutant: the two threshold comparisons are inclusive (>=).
AnalyzeReading_Inclusive(r) ==
    LET unsafe25 == r.pm25 >= PM25_SAFE_THRESHOLD
        unsafe10 == r.pm10 >= PM10_SAFE_THRESHOLD
    IN  [status |-> IF unsafe25 \/ unsafe10 THEN "UNSAFE" ELSE "SAFE",
         severity |-> IF unsafe10 THEN Pm10Severity(r.pm10)
                      ELSE IF unsafe25 THEN Pm25Severity(r.pm25) ELSE "LOW",
         pm25_level |-> r.pm25, pm10_level |-> r.pm10,
         pm25_threshold |-> PM25_SAFE_THRESHOLD,
         pm10_threshold |-> PM10_SAFE_THRESHOLD]

\* Mutant: the more severe of the two tiers wins.
SeverityRank(sev) ==
    IF sev = "CRITICAL" THEN 3 ELSE IF sev = "HIGH" THEN 2
    ELSE IF sev = "MODERATE" THEN 1 ELSE 0

AnalyzeReading_MaxTier(r) ==
    LET unsafe25 == r.pm25 > PM25_SAFE_THRESHOLD
        unsafe10 == r.pm10 > PM10_SAFE_THRESHOLD
        sev25 == IF unsafe25 THEN Pm25Severity(r.pm25) ELSE "LOW"
        sev10 == IF unsafe10 THEN Pm10Severity(r.pm10) ELSE "LOW"
    IN  [status |-> IF unsafe25 \/ unsafe10 THEN "UNSAFE" ELSE "SAFE",
         severity |-> IF SeverityRank(sev25) > SeverityRank(sev10) THEN sev25 ELSE sev10,
         pm25_level |-> r.pm25, pm10_level |-> r.pm10,
         pm25_threshold |-> PM25_SAFE_THRESHOLD,
         pm10_threshold |-> PM10_SAFE_THRESHOLD]

AnalyzeReading(r) ==
    LET status0 == "SAFE"
        severity0 == "LOW"
        status1 == IF r.pm25 > PM25_SAFE_THRESHOLD THEN "UNSAFE" ELSE status0
        severity1 == IF r.pm25 > PM25_SAFE_THRESHOLD
                     THEN Pm25Severity(r.pm25) ELSE severity0
        status2 == IF r.pm10 > PM10_SAFE_THRESHOLD THEN "UNSAFE" ELSE status1
        severity2 == IF r.pm10 > PM10_SAFE_THRESHOLD
                     THEN Pm10Severity(r.pm10) ELSE severity1
    IN  [status |-> status2, severity |-> severity2,
         pm25_level |-> r.pm25, pm10_level |-> r.pm10,
         pm25_threshold |-> PM25_SAFE_THRESHOLD,
         pm10_threshold |-> PM10_SAFE_THRESHOLD]

\* {} : the dict with no keys
EmptyDict == [k \in {} |-> 0]

GetStatistics(rs) ==
    IF rs = << >> THEN EmptyDict
    ELSE LET recent_readings == LastN(rs, StatsWindow)
             n == Len(recent_readings)
         IN  [total_readings |-> Len(rs),
              recent_readings |-> n,
              avg_pm25 |-> RoundDiv(SumOf(recent_readings, "pm25"), n),
              avg_pm10 |-> RoundDiv(SumOf(recent_readings, "pm10"), n),
              max_pm25 |-> MaxOf(recent_readings, "pm25"),
              max_pm10 |-> MaxOf(recent_readings, "pm10"),
              min_pm25 |-> MinOf(recent_readings, "pm25"),
              min_pm10 |-> MinOf(recent_readings, "pm10")]

----------------------------------------------------------------------------
(* AlertSystem.  The alert's message is a function of its other fields and *)
(* its location one of mote_id; both are left out of the record.           *)

\* Mutant: the status test is dropped.
ShouldAlert_Always(a) == a.status \in {"SAFE", "UNSAFE"}

ShouldAlert(a) == a.status = "UNSAFE"

NewAlert(r, a) ==
    [timestamp |-> r.timestamp, mote_id |-> r.mote_id, severity |-> a.severity,
     pm25 |-> r.pm25, pm10 |-> r.pm10]

\* Mutant: the log is never truncated.
AlertsAppend_NoEviction(as, alert) == Append(as, alert)

AlertsAppend(as, alert) ==
    LET appended == Append(as, alert)
    IN  IF Len(appended) > MaxAlerts THEN LastN(appended, MaxAlerts) ELSE appended

\* The callbacks the loop `for callback in self.alert_callbacks` calls when the
\* one at position k raises (k = 0: none raises): an exception leaves the loop.
CallbacksRun(cbs, k) == IF k = 0 THEN cbs ELSE SubSeq(cbs, 1, k)

GetRecentAlerts(as, count) ==
    IF as # << >> THEN SliceFromMinus(as, count) ELSE << >>

----------------------------------------------------------------------------
(* SmartDustSimulation.__init__(num_motes): for each mote it draws the      *)
(* location (two uniform draws) and then base_pollution; at the end it     *)
(* registers its own _on_alert.                                            *)

MoteBasePollution(seed, i) == UniformBasePollution(RngSteps(seed, 3 * i))

InitAt(p) ==
    /\ \E seed \in Seeds :
           /\ motes = [i \in MoteIds |-> NewMote(i, MoteBasePollution(seed, i))]
           /\ rng = RngSteps(seed, 3 * NumMotes)
    /\ clock = 0
    /\ all_readings = << >>
    /\ alerts = << >>
    /\ alert_callbacks = << "_on_alert" >>
    /\ is_running = FALSE
    /\ pc = p
    /\ cur = 1
    /\ reading = NoReading
    /\ analysis = NoAnalysis
    /\ op = "init"
    /\ arg = 0
    /\ ret = << >>
    /\ invoked = << >>
    /\ raised = FALSE
    /\ sensed = [i \in MoteIds |-> << >>]
    /\ ingested = << >>
    /\ generated = << >>

Init == InitAt("idle")

\* Control is in the code that owns the objects, which may call any method.
CallerHasControl == pc \in {"idle", "stopped"}

\* AlertSystem.register_callback(c)
RegisterCallback(c) ==
    /\ pc = "idle"
    /\ Len(alert_callbacks) < MaxCallbacks
    /\ \A i \in 1..Len(alert_callbacks) : alert_callbacks[i] # c
    /\ alert_callbacks' = Append(alert_callbacks, c)
    /\ op' = "register_callback"
    /\ arg' = 0
    /\ ret' = << >>
    /\ UNCHANGED << rng, clock, motes, all_readings, alerts, is_running, pc, cur,
                    reading, analysis, invoked, raised, sensed, ingested, generated >>

\* start_simulation up to its loop
StartSimulation ==
    /\ pc = "idle"
    /\ is_running' = TRUE
    /\ pc' = "sense"
    /\ cur' = 1
    /\ op' = "start_simulation"
    /\ arg' = 0
    /\ ret' = << >>
    /\ UNCHANGED << rng, clock, motes, all_readings, alerts, alert_callbacks,
                    reading, analysis, invoked, raised, sensed, ingested, generated >>

\* reading = mote.sense(), for an active mote
Sense(limit) ==
    /\ pc = "sense"
    /\ clock < limit
    /\ motes[cur].is_active
    /\ LET r == SenseReading(motes[cur], rng, clock + 1)
       IN  /\ motes' = [motes EXCEPT ![cur].reading_history = HistoryAppend(@, r)]
           /\ reading' = r
           /\ ret' = r
           /\ sensed' = [sensed EXCEPT ![cur] = Append(@, r.timestamp)]
    /\ rng' = RngAfterSense(rng)
    /\ clock' = clock + 1
    /\ pc' = "add"
    /\ op' = "sense"
    /\ arg' = cur
    /\ UNCHANGED << all_readings, alerts, alert_callbacks, is_running, cur,
                    analysis, invoked, raised, ingested, generated >>

\* processor.add_reading(reading); control goes on to `then`
AddReading(then) ==
    /\ pc = "add"
    /\ all_readings' = AddReadingResult(all_readings, reading)
    /\ ingested' = Append(ingested, reading.timestamp)
    /\ pc' = then
    /\ op' = "add_reading"
    /\ arg' = 0
    /\ ret' = << >>
    /\ UNCHANGED << rng, clock, motes, alerts, alert_callbacks, is_running, cur,
                    reading, analysis, invoked, raised, sensed, generated >>

\* analysis = processor.analyze_reading(reading)
Analyze ==
    /\ pc = "analyze"
    /\ analysis' = AnalyzeReading(reading)
    /\ ret' = AnalyzeReading(reading)
    /\ pc' = "check"
    /\ op' = "analyze_reading"
    /\ arg' = 0
    /\ UNCHANGED << rng, clock, motes, all_readings, alerts, alert_callbacks,
                    is_running, cur, reading, invoked, raised, sensed, ingested,
                    generated >>

\* alert_system.check_and_alert(reading, analysis), its callbacks included.
\* k is the position of the callback that raises, 0 when none does.  An
\* exception leaves check_and_alert and the loop of start_simulation, whose
\* `finally` runs stop_simulation.
CheckAndAlert ==
    /\ pc = "check"
    /\ op' = "check_and_alert"
    /\ arg' = 0
    /\ ret' = << >>
    /\ IF ShouldAlert(analysis)
       THEN LET alert == NewAlert(reading, analysis)
            IN  /\ alerts' = AlertsAppend(alerts, alert)
                /\ generated' = Append(generated, alert.timestamp)
                /\ \E k \in 0..Len(alert_callbacks) :
                       /\ invoked' = [i \in 1..Len(CallbacksRun(alert_callbacks, k)) |->
                                        [callback |-> alert_callbacks[i], alert |-> alert]]
                       /\ raised' = (k # 0)
       ELSE /\ invoked' = << >>
            /\ raised' = FALSE
            /\ UNCHANGED << alerts, generated >>
    /\ IF raised'
       THEN /\ pc' = "stopped"
            /\ is_running' = FALSE
            /\ cur' = cur
       ELSE /\ pc' = "sense"
            /\ is_running' = is_running
            /\ cur' = IF cur = NumMotes THEN 1 ELSE cur + 1
    /\ UNCHANGED << rng, clock, motes, all_readings, alert_callbacks, reading,
                    analysis, sensed, ingested >>

\* The loop condition fails between two cycles (the duration has elapsed);
\* `finally` runs stop_simulation.  _display_status and the report of
\* stop_simulation only read and print, so they change nothing here.
StopSimulation ==
    /\ pc = "sense"
    /\ cur = 1
    /\ pc' = "stopped"
    /\ is_running' = FALSE
    /\ op' = "stop_simulation"
    /\ arg' = 0
    /\ ret' = << >>
    /\ UNCHANGED << rng, clock, motes, all_readings, alerts, alert_callbacks, cur,
                    reading, analysis, invoked, raised, sensed, ingested, generated >>

\* alert_system.get_recent_alerts(count)
RecentAlerts(count) ==
    /\ CallerHasControl
    /\ op' = "get_recent_alerts"
    /\ arg' = count
    /\ ret' = GetRecentAlerts(alerts, count)
    /\ UNCHANGED << rng, clock, motes, all_readings, alerts, alert_callbacks,
                    is_running, pc, cur, reading, analysis, invoked, raised,
                    sensed, ingested, generated >>

\* processor.get_statistics(), called where control is at `at`
Statistics(at) ==
    /\ pc \in at
    /\ op' = "get_statistics"
    /\ arg' = 0
    /\ ret' = GetStatistics(all_readings)
    /\ UNCHANGED << rng, clock, motes, all_readings, alerts, alert_callbacks,
                    is_running, pc, cur, reading, analysis, invoked, raised,
                    sensed, ingested, generated >>

(* The program: callbacks are registered, then start_simulation runs its   *)
(* loop (sense, add_reading, analyze_reading, check_and_alert for each     *)
(* mote in turn) until it stops; the caller then queries the objects.      *)
Next ==
    \/ \E c \in Observers : RegisterCallback(c)
    \/ StartSimulation
    \/ Sense(MaxReadings)
    \/ AddReading("analyze")
    \/ Analyze
    \/ CheckAndAlert
    \/ StopSimulation
    \/ \E n \in 0..MaxCount : RecentAlerts(n)
    \/ Statistics({"idle", "stopped"})

Spec == Init /\ [][Next]_vars

(* A caller that drives one mote and the processor directly: it senses,    *)
(* ingests the reading, and may ask for the statistics in between.         *)
InitLong == InitAt("sense")

NextLong ==
    \/ Sense(MaxLongReadings)
    \/ AddReading("sense")
    \/ Statistics({"sense"})

SpecLong == InitLong /\ [][NextLong]_vars

(* analyze_reading and check_and_alert on a first reading whose two        *)
(* measurements are drawn from grids around the thresholds and the tier    *)
(* boundaries: the state after mote 1 sensed that reading and add_reading  *)
(* ingested it.                                                            *)
Pm25Grid == {0, 1000, 2499, 2500, 2501, 3000, 3500, 3501, 5000, 5001, 6000}
Pm10Grid == {0, 1000, 4999, 5000, 5001, 5500, 7000, 7001, 10000, 10001, 12000}

InitAnalyze ==
    /\ \E seed \in Seeds :
           /\ \E p25 \in Pm25Grid, p10 \in Pm10Grid :
                  reading = [mote_id |-> 1, timestamp |-> 1, pm25 |-> p25, pm10 |-> p10]
           /\ motes = [i \in MoteIds |->
                         IF i = 1
                         THEN [NewMote(i, MoteBasePollution(seed, i))
                                  EXCEPT !.reading_history = << reading >>]
                         ELSE NewMote(i, MoteBasePollution(seed, i))]
           /\ rng = RngAfterSense(RngSteps(seed, 3 * NumMotes))
    /\ clock = 1
    /\ all_readings = << reading >>
    /\ alerts = << >>
    /\ alert_callbacks = << "_on_alert" >>
    /\ is_running = TRUE
    /\ pc = "analyze"
    /\ cur = 1
    /\ analysis = NoAnalysis
    /\ op = "add_reading"
    /\ arg = 0
    /\ ret = << >>
    /\ invoked = << >>
    /\ raised = FALSE
    /\ sensed = [i \in MoteIds |-> IF i = 1 THEN << 1 >> ELSE << >>]
    /\ ingested = << 1 >>
    /\ generated = << >>

NextAnalyze ==
    \/ Analyze
    \/ CheckAndAlert

SpecAnalyze == InitAnalyze /\ [][NextAnalyze]_vars

----------------------------------------------------------------------------
(* Averages and the pollution map *)

\* What a call returns when the division of lines 90-91 raises.
ZeroDivisionError == [exception |-> "ZeroDivisionError"]

\* Lines 90-96 of get_average_pollution: sum / len of the history, rounded.
AverageOf(h) ==
    IF Len(h) = 0 THEN ZeroDivisionError
    ELSE [pm25 |-> RoundDiv(SumOf(h, "pm25"), Len(h)),
          pm10 |-> RoundDiv(SumOf(h, "pm10"), Len(h))]

\* Mutant: the empty-history test of line 87 is missing.
GetAveragePollution_NoGuard(h) == AverageOf(h)

GetAveragePollution(h) ==
    IF h = << >> THEN [pm25 |-> 0, pm10 |-> 0] ELSE AverageOf(h)

MapEntry(m) ==
    LET avg == GetAveragePollution(m.reading_history)
    IN  [pm25 |-> avg.pm25, pm10 |-> avg.pm10,
         status |-> IF avg.pm25 > PM25_SAFE_THRESHOLD \/ avg.pm10 > PM10_SAFE_THRESHOLD
                    THEN "UNSAFE" ELSE "SAFE"]

\* Mutant: the is_active test of line 180 is missing.
GetPollutionMap_AllMotes(ms) == [i \in DOMAIN ms |-> MapEntry(ms[i])]

\* The dict get_pollution_map builds: mote_id -> entry, for the active motes.
GetPollutionMap(ms) == [i \in {j \in DOMAIN ms : ms[j].is_active} |-> MapEntry(ms[i])]

\* The owner of the motes sets mote.is_active (the attribute of line 47).
SetActive(m, b) ==
    /\ CallerHasControl
    /\ motes[m].is_active # b
    /\ motes' = [motes EXCEPT ![m].is_active = b]
    /\ op' = "set_active"
    /\ arg' = m
    /\ ret' = << >>
    /\ UNCHANGED << rng, clock, all_readings, alerts, alert_callbacks, is_running,
                    pc, cur, reading, analysis, invoked, raised, sensed, ingested,
                    generated >>

\* start_simulation called again after it returned
RestartSimulation ==
    /\ pc = "stopped"
    /\ is_running' = TRUE
    /\ pc' = "sense"
    /\ cur' = 1
    /\ op' = "start_simulation"
    /\ arg' = 0
    /\ ret' = << >>
    /\ UNCHANGED << rng, clock, motes, all_readings, alerts, alert_callbacks,
                    reading, analysis, invoked, raised, sensed, ingested, generated >>

\* Mutant: the loop passes over a mote whether it is active or not.
SkipInactive_SkipsAny ==
    /\ pc = "sense"
    /\ cur' = IF cur = NumMotes THEN 1 ELSE cur + 1
    /\ op' = "skip"
    /\ arg' = cur
    /\ ret' = << >>
    /\ UNCHANGED << rng, clock, motes, all_readings, alerts, alert_callbacks,
                    is_running, pc, reading, analysis, invoked, raised, sensed,
                    ingested, generated >>

\* `if mote.is_active` fails: the loop goes on to the next mote
SkipInactive ==
    /\ pc = "sense"
    /\ ~motes[cur].is_active
    /\ cur' = IF cur = NumMotes THEN 1 ELSE cur + 1
    /\ op' = "skip"
    /\ arg' = cur
    /\ ret' = << >>
    /\ UNCHANGED << rng, clock, motes, all_readings, alerts, alert_callbacks,
                    is_running, pc, reading, analysis, invoked, raised, sensed,
                    ingested, generated >>

\* mote.get_average_pollution()
AveragePollution(m) ==
    /\ CallerHasControl
    /\ op' = "get_average_pollution"
    /\ arg' = m
    /\ ret' = GetAveragePollution(motes[m].reading_history)
    /\ UNCHANGED << rng, clock, motes, all_readings, alerts, alert_callbacks,
                    is_running, pc, cur, reading, analysis, invoked, raised,
                    sensed, ingested, generated >>

\* processor.get_pollution_map(motes)
PollutionMap ==
    /\ CallerHasControl
    /\ op' = "get_pollution_map"
    /\ arg' = 0
    /\ ret' = GetPollutionMap(motes)
    /\ UNCHANGED << rng, clock, motes, all_readings, alerts, alert_callbacks,
                    is_running, pc, cur, reading, analysis, invoked, raised,
                    sensed, ingested, generated >>

(* A fleet whose owner switches motes off and on between runs of            *)
(* start_simulation and reads the averages, the map and the statistics.    *)
MaxFleetReadings == 5

NextFleet ==
    \/ StartSimulation
    \/ RestartSimulation
    \/ \E m \in MoteIds, b \in BOOLEAN : SetActive(m, b)
    \/ Sense(MaxFleetReadings)
    \/ SkipInactive
    \/ AddReading("analyze")
    \/ Analyze
    \/ CheckAndAlert
    \/ StopSimulation
    \/ Statistics({"idle", "stopped"})
    \/ \E m \in MoteIds : AveragePollution(m)
    \/ PollutionMap

SpecFleet == Init /\ [][NextFleet]_vars

----------------------------------------------------------------------------
(* Motes constructed directly: SmartDustMote(mote_id, location,            *)
(* base_pollution) with a base_pollution of the caller's choice, in        *)
(* tenths.  __init__ stores the argument as it is.                         *)

MaxCreateReadings == 4

BasePollutionInputs == {-5, 0, 10, 15}

InitCreate ==
    /\ \E bp \in [MoteIds -> BasePollutionInputs] :
           motes = [i \in MoteIds |-> NewMote(i, bp[i])]
    /\ rng \in Seeds
    /\ clock = 0
    /\ all_readings = << >>
    /\ alerts = << >>
    /\ alert_callbacks = << "_on_alert" >>
    /\ is_running = TRUE
    /\ pc = "sense"
    /\ cur = 1
    /\ reading = NoReading
    /\ analysis = NoAnalysis
    /\ op = "init"
    /\ arg = 0
    /\ ret = << >>
    /\ invoked = << >>
    /\ raised = FALSE
    /\ sensed = [i \in MoteIds |-> << >>]
    /\ ingested = << >>
    /\ generated = << >>

NextCreate ==
    \/ Sense(MaxCreateReadings)
    \/ AddReading("analyze")
    \/ Analyze
    \/ CheckAndAlert

SpecCreate == InitCreate /\ [][NextCreate]_vars

----------------------------------------------------------------------------
(* DustVisualizer.plot_real_time: start_simulation runs in a background    *)
(* thread while the main thread's _update_plots reads the global history   *)
(* and the alert log.  Neither file takes a lock, so the reader can run    *)
(* between any two statements of the loop: add_reading and check_and_alert *)
(* are split at the statement between their append and their truncation.   *)

MaxThreadReadings == 140

\* self.all_readings.append(reading)
AppendReading ==
    /\ pc = "add"
    /\ all_readings' = Append(all_readings, reading)
    /\ ingested' = Append(ingested, reading.timestamp)
    /\ pc' = "add_truncate"
    /\ op' = "add_reading"
    /\ arg' = 0
    /\ ret' = << >>
    /\ UNCHANGED << rng, clock, motes, alerts, alert_callbacks, is_running, cur,
                    reading, analysis, invoked, raised, sensed, generated >>

\* if len(self.all_readings) > self.max_readings: keep the last max_readings
TruncateReadings ==
    /\ pc = "add_truncate"
    /\ all_readings' = IF Len(all_readings) > MaxAllReadings
                       THEN LastN(all_readings, MaxAllReadings)
                       ELSE all_readings
    /\ pc' = "analyze"
    /\ op' = "add_reading_truncate"
    /\ arg' = 0
    /\ ret' = << >>
    /\ UNCHANGED << rng, clock, motes, alerts, alert_callbacks, is_running, cur,
                    reading, analysis, invoked, raised, sensed, ingested, generated >>

\* check_and_alert up to self.alerts.append(alert)
AppendAlert ==
    /\ pc = "check"
    /\ op' = "check_and_alert"
    /\ arg' = 0
    /\ ret' = << >>
    /\ invoked' = << >>
    /\ raised' = FALSE
    /\ IF ShouldAlert(analysis)
       THEN /\ alerts' = Append(alerts, NewAlert(reading, analysis))
            /\ generated' = Append(generated, reading.timestamp)
            /\ pc' = "check_truncate"
            /\ cur' = cur
       ELSE /\ pc' = "sense"
            /\ cur' = IF cur = NumMotes THEN 1 ELSE cur + 1
            /\ UNCHANGED << alerts, generated >>
    /\ UNCHANGED << rng, clock, motes, all_readings, alert_callbacks, is_running,
                    reading, analysis, sensed, ingested >>

\* the rest of check_and_alert: the truncation of the log, then the callbacks
\* (k is the position of the one that raises, 0 when none does)
TruncateAlerts ==
    /\ pc = "check_truncate"
    /\ op' = "check_and_alert_truncate"
    /\ arg' = 0
    /\ ret' = << >>
    /\ alerts' = IF Len(alerts) > MaxAlerts THEN LastN(alerts, MaxAlerts) ELSE alerts
    /\ \E k \in 0..Len(alert_callbacks) :
           /\ invoked' = [i \in 1..Len(CallbacksRun(alert_callbacks, k)) |->
                            [callback |-> alert_callbacks[i],
                             alert |-> alerts[Len(alerts)]]]
           /\ raised' = (k # 0)
    /\ IF raised'
       THEN /\ pc' = "stopped"
            /\ is_running' = FALSE
            /\ cur' = cur
       ELSE /\ pc' = "sense"
            /\ is_running' = is_running
            /\ cur' = IF cur = NumMotes THEN 1 ELSE cur + 1
    /\ UNCHANGED << rng, clock, motes, all_readings, alert_callbacks, reading,
                    analysis, sensed, ingested, generated >>

\* _update_plots reads processor.all_readings (lines 52-59, and through
\* get_statistics line 105): what it sees is recorded in ret.
PlotReadings ==
    /\ pc # "idle"
    /\ op' = "plot_readings"
    /\ arg' = 0
    /\ ret' = [length |-> Len(all_readings)]
    /\ UNCHANGED << rng, clock, motes, all_readings, alerts, alert_callbacks,
                    is_running, pc, cur, reading, analysis, invoked, raised,
                    sensed, ingested, generated >>

\* _update_plots reads alert_system.alerts (lines 133-146); it gets there
\* only when the history was not empty at line 52.
PlotAlerts ==
    /\ pc # "idle"
    /\ all_readings # << >>
    /\ op' = "plot_alerts"
    /\ arg' = 0
    /\ ret' = [length |-> Len(alerts)]
    /\ UNCHANGED << rng, clock, motes, all_readings, alerts, alert_callbacks,
                    is_running, pc, cur, reading, analysis, invoked, raised,
                    sensed, ingested, generated >>

NextThreads ==
    \/ StartSimulation
    \/ Sense(MaxThreadReadings)
    \/ AppendReading
    \/ TruncateReadings
    \/ Analyze
    \/ AppendAlert
    \/ TruncateAlerts
    \/ StopSimulation
    \/ PlotReadings
    \/ PlotAlerts

SpecThreads == Init /\ [][NextThreads]_vars

----------------------------------------------------------------------------
(* Properties *)

\* The last min(n, Len(all)) entries of `all`, oldest first.
MostRecent(all, n) == SubSeq(all, Len(all) - Min(n, Len(all)) + 1, Len(all))

Timestamps(xs) == [i \in 1..Len(xs) |-> xs[i].timestamp]

\* C1: the alert log holds at most 100 alerts, namely the most recent
\* min(100, k) of the k alerts generated so far, oldest first; once 150 alerts
\* have been generated its length is exactly 100.
C1_AlertLogHoldsMostRecent ==
    /\ Len(alerts) <= 100
    /\ Len(alerts) = Min(100, Len(generated))
    /\ Timestamps(alerts) = MostRecent(generated, 100)
    /\ Len(generated) >= 150 => Len(alerts) = 100

C1_Witness ==
    /\ op = "check_and_alert"
    /\ Len(generated) = 150
    /\ Len(alerts) = 100

\* C2: the global history holds at most 1000 readings, namely the most recent
\* min(1000, k) of the k readings ingested so far, in arrival order; once 1500
\* readings have been ingested its length is exactly 1000.
C2_GlobalHistoryHoldsMostRecent ==
    /\ Len(all_readings) <= 1000
    /\ Len(all_readings) = Min(1000, Len(ingested))
    /\ Timestamps(all_readings) = MostRecent(ingested, 1000)
    /\ Len(ingested) >= 1500 => Len(all_readings) = 1000

C2_Witness ==
    /\ op = "add_reading"
    /\ Len(ingested) = 1500
    /\ Len(all_readings) = 1000

\* C3: each mote's reading_history holds at most 100 readings, namely the most
\* recent min(100, k) of the k readings the mote has produced, in arrival
\* order; the reading sense() returns is the newest element of the history;
\* once the mote has sensed 150 times the length is exactly 100.
C3_MoteHistoryHoldsMostRecent ==
    /\ \A m \in MoteIds :
           LET h == motes[m].reading_history
           IN  /\ Len(h) <= 100
               /\ Len(h) = Min(100, Len(sensed[m]))
               /\ Timestamps(h) = MostRecent(sensed[m], 100)
               /\ \A i \in 1..Len(h) : h[i].mote_id = m
               /\ Len(sensed[m]) >= 150 => Len(h) = 100
    /\ op = "sense" =>
           LET h == motes[arg].reading_history
           IN  /\ h # << >>
               /\ ret = h[Len(h)]

C3_Witness ==
    /\ op = "sense"
    /\ Len(sensed[arg]) = 150
    /\ Len(motes[arg].reading_history) = 100

\* C4: analyze_reading returns UNSAFE exactly when pm25 > 25.0 or pm10 > 50.0
\* (strictly: 25.0 with 50.0 is SAFE), returns severity LOW exactly when the
\* status is SAFE, and leaves the processor's state as it was.
C4_StatusByStrictThresholds ==
    [][op' = "analyze_reading" =>
          /\ ret'.status \in {"SAFE", "UNSAFE"}
          /\ ret'.status = "UNSAFE" <=> (reading.pm25 > 2500 \/ reading.pm10 > 5000)
          /\ ret'.severity = "LOW" <=> ret'.status = "SAFE"
          /\ analysis' = ret'
          /\ all_readings' = all_readings]_vars

C4_Witness ==
    /\ op = "analyze_reading"
    /\ reading.pm25 = 2500
    /\ reading.pm10 = 5000
    /\ ret.status = "SAFE"
    /\ ret.severity = "LOW"
    /\ all_readings # << >>

\* C5: the severity is the tier of the last-evaluated breaching pollutant:
\* the PM10 tier if pm10 > 50 (> 100 CRITICAL, > 70 HIGH, else MODERATE),
\* whatever pm25 is; otherwise the PM2.5 tier if pm25 > 25 (> 50 CRITICAL,
\* > 35 HIGH, else MODERATE).  pm25 = 60 with pm10 = 55 gives MODERATE.
C5_SeverityOfLastBreach ==
    op = "analyze_reading" =>
        /\ reading.pm10 > 5000 =>
               ret.severity = IF reading.pm10 > 10000 THEN "CRITICAL"
                              ELSE IF reading.pm10 > 7000 THEN "HIGH"
                              ELSE "MODERATE"
        /\ (reading.pm10 <= 5000 /\ reading.pm25 > 2500) =>
               ret.severity = IF reading.pm25 > 5000 THEN "CRITICAL"
                              ELSE IF reading.pm25 > 3500 THEN "HIGH"
                              ELSE "MODERATE"
        /\ (reading.pm25 = 6000 /\ reading.pm10 = 5500) => ret.severity = "MODERATE"

C5_Witness ==
    /\ op = "analyze_reading"
    /\ reading.pm25 = 6000
    /\ reading.pm10 = 5500
    /\ ret.severity = "MODERATE"

InvokedCallbacks == [i \in 1..Len(invoked) |-> invoked[i].callback]

\* C6: when an observer raises during check_and_alert, every observer
\* registered after it is still invoked for the same alert, and the alert
\* stays recorded in the log.
C6_RaisingObserverIsIsolated ==
    (op = "check_and_alert" /\ raised) =>
        /\ InvokedCallbacks = alert_callbacks
        /\ alerts # << >>
        /\ \A i \in 1..Len(invoked) : invoked[i].alert = alerts[Len(alerts)]

\* C7: for each alert check_and_alert generates, every registered observer is
\* invoked exactly once, in registration order, after the alert was appended,
\* and is handed the alert that was appended.
C7_EveryObserverOncePerAlert ==
    (op = "check_and_alert" /\ ShouldAlert(analysis)) =>
        /\ InvokedCallbacks = alert_callbacks
        /\ alerts # << >>
        /\ \A i \in 1..Len(invoked) : invoked[i].alert = alerts[Len(alerts)]
        /\ alerts[Len(alerts)].timestamp = reading.timestamp

\* C8: check_and_alert with a verdict whose status is not UNSAFE changes
\* nothing: the log is as it was and no observer is invoked; the log changes
\* only by a check_and_alert whose verdict is UNSAFE.
C8_NoAlertUnlessUnsafe ==
    [][/\ (op' = "check_and_alert" /\ analysis.status # "UNSAFE") =>
              /\ alerts' = alerts
              /\ generated' = generated
              /\ invoked' = << >>
              /\ ~raised'
       /\ alerts' # alerts =>
              /\ op' = "check_and_alert"
              /\ analysis.status = "UNSAFE"
              /\ alerts'[Len(alerts')].timestamp = reading.timestamp]_vars

C8_Witness ==
    /\ op = "check_and_alert"
    /\ analysis.status = "SAFE"
    /\ alerts # << >>
    /\ invoked = << >>

\* C9: get_recent_alerts(n), n >= 0, returns the last n alerts oldest first,
\* all of them when fewer than n exist, none when the log is empty; the
\* result never has more than n elements.
C9_RecentAlertsAtMostN ==
    op = "get_recent_alerts" =>
        /\ Len(ret) <= arg
        /\ Len(ret) = Min(arg, Len(alerts))
        /\ ret = MostRecent(alerts, arg)

\* C10: on a non-empty history get_statistics reports total_readings equal to
\* the number of readings ever ingested, recent_readings equal to
\* min(100, history length), and min, avg and max of pm25 and pm10 over the
\* most recent min(100, history length) entries.
C10_StatisticsOverWindow ==
    (op = "get_statistics" /\ all_readings # << >>) =>
        LET w == MostRecent(all_readings, 100)
            n == Len(w)
        IN  /\ ret.total_readings = Len(ingested)
            /\ ret.recent_readings = Min(100, Len(all_readings))
            /\ \A i \in 1..n : /\ ret.min_pm25 <= w[i].pm25
                                /\ w[i].pm25 <= ret.max_pm25
                                /\ ret.min_pm10 <= w[i].pm10
                                /\ w[i].pm10 <= ret.max_pm10
            /\ \E i \in 1..n : ret.min_pm25 = w[i].pm25
            /\ \E i \in 1..n : ret.max_pm25 = w[i].pm25
            /\ \E i \in 1..n : ret.min_pm10 = w[i].pm10
            /\ \E i \in 1..n : ret.max_pm10 = w[i].pm10
            /\ 2 * (n * ret.avg_pm25 - SumOf(w, "pm25")) \in (0 - n)..n
            /\ 2 * (n * ret.avg_pm10 - SumOf(w, "pm10")) \in (0 - n)..n

\* C11: get_statistics never divides by a zero-length window: on an empty
\* history it returns {} and otherwise its window has at least one entry;
\* get_average_pollution returns averages of 0 for a mote with no history
\* and never raises.
C11_NoDivisionByZero ==
    /\ op = "get_statistics" =>
           IF all_readings = << >>
           THEN DOMAIN ret = {}
           ELSE /\ "exception" \notin DOMAIN ret
                /\ ret.recent_readings >= 1
    /\ op = "get_average_pollution" =>
           /\ "exception" \notin DOMAIN ret
           /\ motes[arg].reading_history = << >> => (ret.pm25 = 0 /\ ret.pm10 = 0)

C11_Witness ==
    /\ op = "get_average_pollution"
    /\ motes[arg].reading_history = << >>
    /\ all_readings # << >>
    /\ ret.pm25 = 0
    /\ ret.pm10 = 0

\* C12: the keys of get_pollution_map(motes) are exactly the ids of the
\* motes whose is_active is true (an inactive mote is never a key, even with
\* history; every active mote is one), each entry carries the mote's
\* averages, and its status is UNSAFE exactly when the average pm25 is above
\* 25.0 or the average pm10 is above 50.0.
C12_MapOfActiveMotes ==
    op = "get_pollution_map" =>
        /\ DOMAIN ret = {i \in MoteIds : motes[i].is_active}
        /\ \A i \in DOMAIN ret :
              LET h == motes[i].reading_history
                  n == Len(h)
              IN  /\ ret[i].pm25 = IF n = 0 THEN 0 ELSE RoundDiv(SumOf(h, "pm25"), n)
                  /\ ret[i].pm10 = IF n = 0 THEN 0 ELSE RoundDiv(SumOf(h, "pm10"), n)
                  /\ ret[i].status \in {"SAFE", "UNSAFE"}
                  /\ ret[i].status = "UNSAFE" <=>
                         (ret[i].pm25 > 2500 \/ ret[i].pm10 > 5000)

C12_Witness ==
    /\ op = "get_pollution_map"
    /\ \E i \in MoteIds :
          /\ ~motes[i].is_active
          /\ motes[i].reading_history # << >>
          /\ i \notin DOMAIN ret
    /\ \E i \in DOMAIN ret : ret[i].status = "UNSAFE"

\* C13: a mote whose base_pollution is outside [0,1] (0..10 in tenths) is
\* rejected at creation, so no mote that has produced a reading has one.
C13_OutOfRangeMoteNeverSenses ==
    \A i \in MoteIds :
        motes[i].reading_history # << >> => motes[i].base_pollution \in 0..10

\* What C14 says of inactive motes: a step leaves the history of an inactive
\* mote as it was and puts no reading of it into the global history or the
\* alert log.
InactiveMotesUntouched ==
    \A i \in MoteIds :
        ~motes[i].is_active =>
            /\ motes'[i].reading_history = motes[i].reading_history
            /\ all_readings' # all_readings =>
                   all_readings'[Len(all_readings')].mote_id # i
            /\ alerts' # alerts => alerts'[Len(alerts')].mote_id # i

BetweenMotes == op \in {"start_simulation", "check_and_alert", "skip"}

C15_ReaderSeesBoundedLogs ==
    /\ op = "plot_readings" => ret.length <= 1000
    /\ op = "plot_alerts" => ret.length <= 100

====
